---- MODULE Spec2Model ----
(***************************************************************************)
(* GitHub OAuth device-flow authentication of vscodey.copilot             *)
(* (src/vscodey/copilot/github_auth.py): GitHubAuth.authenticate and the   *)
(* polling loop GitHubAuth._poll_for_token, under a simulated clock in     *)
(* which only time.sleep and the blocking input() prompt advance time.     *)
(* Around it: the CLI commands of cli.py and cli_core.py working on the    *)
(* auth section of the config (config.py, with a writable config file),    *)
(* and the interactive session with the chat history it keeps              *)
(* (interactive_session.py, chat_interface.py).                            *)
(***************************************************************************)
EXTENDS Integers, Sequences, FiniteSets, TLC

\* ------------------------------------------------------------------ bounds
\* Largest expires_in / interval a device-code response carries explicitly,
\* and the longest the user waits before pressing Enter.
MaxExpires == 4
MaxInterval == 2
MaxPrompt == 2
\* Most slow_down answers the provider gives in one session.
MaxSlowDowns == 2
\* Most CLI commands run one after the other against the same config file.
MaxCommands == 3
\* Most lines the user types in one interactive session.
MaxInputs == 3

\* ------------------------------------------------------- program constants
\* device_info.get("interval", 5), device_info.get("expires_in", 900)
DefaultInterval == 5
DefaultExpiresIn == 900
\* interval += 5
SlowDownIncrement == 5

\* Python's None, as a return value.
None == "None"
\* No message printed / no poll sent yet.
NoMsg == [kind |-> "none", text |-> ""]
NoTime == -1

\* ------------------------------------------------------------------ inputs
\* Access tokens a poll response may carry; "" is a present but empty value.
Tokens == {"gho_xxx", ""}

\* a 200 body of the device-code endpoint that decodes to a non-empty dict
\* but lacks device_code (and user_code)
MalformedDeviceInfos == {[expires_in |-> 1, interval |-> 1]}

\* JSON bodies of the device-code endpoint (status 200): small grants, and
\* the grant that leaves expires_in and interval to the defaults of
\* _poll_for_token, which polls it as expires_in = 900, interval = 5.
DeviceInfos ==
    {[device_code |-> "D1", user_code |-> "ABCD-1234", expires_in |-> e, interval |-> i] :
        e \in 0..MaxExpires, i \in 1..MaxInterval}
    \cup {[device_code |-> "D1", user_code |-> "ABCD-1234"]}
    \cup MalformedDeviceInfos

\* error codes of the access-token endpoint, and one the code does not know
PollErrors == {"authorization_pending", "slow_down", "expired_token",
               "access_denied", "unsupported_grant_type"}

\* JSON bodies of the access-token endpoint
PollBodies ==
    {[access_token |-> t] : t \in Tokens}
    \cup {[error |-> e] : e \in PollErrors}
    \cup {[error |-> e, error_description |-> "desc"] : e \in {"expired_token", "access_denied"}}
    \cup {[token_type |-> "bearer"]}

\* responses of requests.post on the access-token endpoint
PollResponses ==
    {[status_code |-> 200, json |-> b] : b \in PollBodies}
    \cup {[status_code |-> s, json |-> [message |-> "failure"]] : s \in {400, 500}}

\* ways the device-code request fails inside authenticate
DeviceCodeFailures == {"device_code_failed", "empty_body", "exception"}

\* seconds the user takes before pressing Enter
PromptDelays == {0, MaxPrompt}

\* exceptions raised inside one loop iteration: transport failure, request
\* timeout (timeout=30), undecodable body in response.json()
PollExceptions == {"ConnectionError", "Timeout", "JSONDecodeError"}

NoResponse == [status_code |-> 0, json |-> [none |-> TRUE]]

\* exit code of a process that is still running
NoExit == -1

\* get_user_info returned None
NullProfile == [login |-> "", name |-> ""]
\* JSON body of the identity endpoint on success
Profile == [login |-> "octocat", name |-> "Octo Cat"]

\* answers of requests.get on the identity endpoint: a status with a
\* decodable or undecodable body, or an exception (transport failure,
\* timeout=30)
IdentityResponses ==
    {[kind |-> "http", status_code |-> st, decodable |-> TRUE, json |-> Profile] :
        st \in {200, 204, 401, 500}}
    \cup {[kind |-> "http", status_code |-> 200, decodable |-> FALSE, json |-> NullProfile]}
    \cup {[kind |-> k, status_code |-> 0, decodable |-> FALSE, json |-> NullProfile] :
        k \in {"ConnectionError", "Timeout"}}

NoIdResponse == [kind |-> "none", status_code |-> 0, decodable |-> FALSE, json |-> NullProfile]

\* _get_default_config: "auth": {"token": None, "token_type": "github_copilot"}
LoggedOutConfig ==
    [token |-> None, token_type |-> "github_copilot", authenticated_at |-> NoTime]
\* the auth section an earlier login at time 0 left behind
LoggedInConfig ==
    [token |-> "gho_old", token_type |-> "github", authenticated_at |-> 0]
InitialConfigs == {LoggedOutConfig, LoggedInConfig}

\* values of GITHUB_COPILOT_TOKEN: unset or set
EnvTokens == {None, "gho_env"}

\* --token argument of setup, and what the user types at its prompt
SetupArgs == {None, "gho_new"}
SetupTyped == {"", "gho_typed"}

\* lines typed at the prompt of the interactive session, as sequences of
\* characters: empty and blank lines, the special commands (one in upper
\* case, one surrounded by blanks), and chat messages (one that starts
\* with a blank, two that start with a slash)
InputLines ==
    { <<>>, <<" ">>,
      <<"h", "i">>, <<" ", "h", "i">>,
      <<"/", "h", "e", "l", "p">>,
      <<"/", "c", "o", "n", "t", "e", "x", "t">>,
      <<"/", "f", "i", "l", "e", "s">>,
      <<"/", "h", "i", "s", "t", "o", "r", "y">>,
      <<"/", "c", "l", "e", "a", "r">>,
      <<"/", "e", "x", "i", "t">>,
      <<"/", "q", "u", "i", "t">>,
      <<"/", "q">>, <<"/", "Q">>, <<" ", "/", "q", " ">>,
      <<"/", "x">>, <<"/", "q", " ", "x">> }

\* the list get_session_history has handed out: whether it is the stored
\* list object itself, its items, and whether its holder changed it
NoList == [given |-> FALSE, alias |-> FALSE, items |-> <<>>, mutated |-> FALSE]

\* what the holder of a returned list does to it
ListMutations == {"append", "clear"}

\* ------------------------------------------------------------------- state
VARIABLES
    pc,            \* position inside authenticate / _poll_for_token
    now,           \* time.time() of the simulated clock
    device_info,   \* the grant returned by _request_device_code
    grant_created, \* clock value when the device-code response arrived
    interval,      \* local of _poll_for_token
    expires_in,    \* local of _poll_for_token
    start_time,    \* local of _poll_for_token
    response,      \* last response of the access-token endpoint
    polls,         \* number of poll requests sent
    last_poll_at,  \* clock value of the latest poll request
    n_pending,     \* authorization_pending responses handled
    n_slow,        \* slow_down responses handled
    terminal_at,   \* value of polls when the loop was left, NoTime before
    outcome,       \* which exit of the flow was taken
    poll_result,   \* return value of _poll_for_token
    poll_msg,      \* message printed by _poll_for_token when it gives up
    sleep_for,     \* argument of the time.sleep call in progress
    auth_result,   \* return value of authenticate
    device_requests, \* requests sent to the device-code endpoint
    displayed,     \* the user code and verification URL were printed
    browser,       \* outcome of webbrowser.open: "none", "opened", "failed"
    device_code,   \* local of _poll_for_token, sent in the data of each poll
    polled_codes,  \* device_code values the poll requests have carried
    poll_loops,    \* calls of _poll_for_token
    command,       \* CLI command of this process, "none" before it is chosen
    config,        \* the auth section of CLIConfig._config_data
    config0,       \* config when the process started
    env_token,     \* environment variable GITHUB_COPILOT_TOKEN
    verify_calls,  \* calls of verify_token
    verify_response, \* what the identity endpoint answered to verify_token
    verify_result, \* return value of verify_token
    info_calls,    \* calls of get_user_info
    info_response, \* what the identity endpoint answered to get_user_info
    user_info,     \* return value of get_user_info
    check_result,  \* outcome of _check_authentication
    exit_code,     \* exit code of main, NoExit while running
    runs,          \* CLI processes that have ended before this one
    last_command,  \* command of the previous process, "none" if there is none
    last_exit,     \* exit code of the previous process
    session_pc,    \* InteractiveSession.run: "none", "input", "ended"
    session_active, \* InteractiveSession.session_active
    lines,         \* lines read by _get_user_input so far
    sent,          \* messages passed to ChatInterface.send_message so far
    send_result,   \* kind of dict the last send_message returned
    session_history, \* ChatInterface.session_history
    returned,      \* the list the last get_session_history call returned
    ended_by       \* what ended run: "command", "eof", "interrupt", "error"

vars == <<pc, now, device_info, grant_created, interval, expires_in, start_time,
          response, polls, last_poll_at, n_pending, n_slow, terminal_at,
          outcome, poll_result, poll_msg, sleep_for, auth_result,
          device_requests, displayed, browser,
          device_code, polled_codes, poll_loops,
          command, config, config0, env_token, verify_calls, verify_response,
          verify_result, info_calls, info_response, user_info, check_result,
          exit_code, runs, last_command, last_exit,
          session_pc, session_active, lines, sent, send_result, session_history,
          returned, ended_by>>

\* ---------------------------------------------------------------- helpers
\* dict.get(key, default)
Get(d, key, default) == IF key \in DOMAIN d THEN d[key] ELSE default

\* Python truthiness of an Optional[str]
Truthy(v) == v # None /\ v # ""

\* the test of line 54 inverted
AuthenticateResult_Inverted(access_token) ==
    IF Truthy(access_token) THEN None ELSE access_token

\* authenticate, lines 54-59: `if access_token: return access_token`
\* `else: return None`
AuthenticateResult(access_token) ==
    IF Truthy(access_token) THEN access_token ELSE None

\* `<=` in place of `<`
LoopCondition_Inclusive(t, start, expires) == t - start <= expires

\* while time.time() - start_time < expires_in
LoopCondition(t, start, expires) == t - start < expires

\* the increment of line 172 left out
SlowDownInterval_NoIncrease(i) == i

\* interval += 5
SlowDownInterval(i) == i + SlowDownIncrement

\* time.sleep(1) whatever the interval
SleepUntil_Fixed(t, seconds) == t + 1

\* time.sleep(interval // 2)
SleepUntil_Halved(t, seconds) == t + (seconds \div 2)

\* time.sleep(seconds) on the simulated clock
SleepUntil(t, seconds) == t + seconds

\* every error code other than slow_down is waited on
Branch_AnyErrorPending(r) ==
    IF r.status_code = 200
    THEN IF "access_token" \in DOMAIN r.json THEN "token"
         ELSE IF Get(r.json, "error", None) = "slow_down" THEN "slow_down"
         ELSE IF "error" \in DOMAIN r.json THEN "pending"
         ELSE "error"
    ELSE "status"

\* the authorization_pending arm left out
Branch_NoPendingArm(r) ==
    IF r.status_code = 200
    THEN IF "access_token" \in DOMAIN r.json THEN "token"
         ELSE IF Get(r.json, "error", None) = "slow_down" THEN "slow_down"
         ELSE "error"
    ELSE "status"

\* a status other than 200 is retried like authorization_pending
Branch_StatusRetried(r) ==
    IF r.status_code = 200
    THEN IF "access_token" \in DOMAIN r.json THEN "token"
         ELSE IF Get(r.json, "error", None) = "authorization_pending" THEN "pending"
         ELSE IF Get(r.json, "error", None) = "slow_down" THEN "slow_down"
         ELSE "error"
    ELSE "pending"

\* any 2xx status accepted
VerifyToken_Any2xx(r) == r.kind = "http" /\ r.status_code >= 200 /\ r.status_code < 300

\* verify_token, lines 201-207
VerifyToken(r) == r.kind = "http" /\ r.status_code = 200

\* the status check of line 225 left out
GetUserInfo_AnyStatus(r) ==
    IF r.kind = "http" /\ r.decodable
    THEN r.json ELSE NullProfile

\* get_user_info, lines 223-232
GetUserInfo(r) ==
    IF r.kind = "http" /\ r.status_code = 200 /\ r.decodable
    THEN r.json ELSE NullProfile

\* CLIConfig.get_token, lines 318-323
GetToken(cfg, env) == IF Truthy(env) THEN env ELSE cfg.token

\* removing the token resets the whole auth section
SetToken_RemovesAll(cfg, token, t) ==
    IF token = None
    THEN LoggedOutConfig
    ELSE [token |-> token, token_type |-> "github", authenticated_at |-> t]

\* CLIConfig.set_token, lines 331-338, at clock value t
SetToken(cfg, token, t) ==
    IF token = None
    THEN [cfg EXCEPT !.token = None]
    ELSE [token |-> token, token_type |-> "github", authenticated_at |-> t]

\* CLIConfig.get_auth_info, lines 346-351, with is_configured (line 375)
GetAuthInfo(cfg, env) ==
    [token |-> GetToken(cfg, env),
     token_type |-> cfg.token_type,
     authenticated_at |-> cfg.authenticated_at,
     is_authenticated |-> GetToken(cfg, env) # None]

\* branch of the if/elif chain of lines 161-182 a response takes
Branch(r) ==
    IF r.status_code = 200
    THEN IF "access_token" \in DOMAIN r.json THEN "token"
         ELSE IF Get(r.json, "error", None) = "authorization_pending" THEN "pending"
         ELSE IF Get(r.json, "error", None) = "slow_down" THEN "slow_down"
         ELSE "error"
    ELSE "status"

\* no interactive session has been created
ReplIdle ==
    /\ session_pc = "none"
    /\ session_active = TRUE
    /\ lines = <<>>
    /\ sent = <<>>
    /\ send_result = "none"
    /\ session_history = <<>>
    /\ returned = NoList
    /\ ended_by = "none"

\* no CLI handler has run yet
CliIdle ==
    /\ command = "none"
    /\ verify_calls = 0
    /\ verify_response = NoIdResponse
    /\ verify_result = FALSE
    /\ info_calls = 0
    /\ info_response = NoIdResponse
    /\ user_info = NullProfile
    /\ check_result = "none"
    /\ exit_code = NoExit

Init ==
    /\ pc = "start"
    /\ now = 0
    /\ device_info = [none |-> TRUE]
    /\ grant_created = NoTime
    /\ interval = 0
    /\ expires_in = 0
    /\ start_time = 0
    /\ response = NoResponse
    /\ polls = 0
    /\ last_poll_at = NoTime
    /\ n_pending = 0
    /\ n_slow = 0
    /\ terminal_at = NoTime
    /\ outcome = "none"
    /\ poll_result = None
    /\ poll_msg = NoMsg
    /\ sleep_for = 0
    /\ auth_result = None
    /\ device_requests = 0
    /\ displayed = FALSE
    /\ browser = "none"
    /\ device_code = None
    /\ polled_codes = {}
    /\ poll_loops = 0
    /\ CliIdle
    /\ config = LoggedOutConfig
    /\ config0 = LoggedOutConfig
    /\ env_token = None
    /\ runs = 0
    /\ last_command = "none"
    /\ last_exit = NoExit
    /\ ReplIdle

\* ----------------------------------------------------------------- actions
\* variables of the polling loop, untouched before it starts
loopVars == <<interval, expires_in, start_time, response, polls, last_poll_at,
              n_pending, n_slow, terminal_at, poll_result, poll_msg, sleep_for,
              device_code, polled_codes, poll_loops>>

\* which grant the loop polls, and how often the loop was entered
grantUse == <<device_code, polled_codes, poll_loops>>

\* the CLI layer around the device flow
cliVars == <<command, config, config0, env_token, verify_calls, verify_response,
             verify_result, info_calls, info_response, user_info, check_result,
             exit_code, runs, last_command, last_exit,
             session_pc, session_active, lines, sent, send_result, session_history,
             returned, ended_by>>

\* the interactive session and the chat interface it talks to
replVars == <<session_pc, session_active, lines, sent, send_result,
              session_history, returned, ended_by>>

\* what is known of the process that ran before this one
historyVars == <<runs, last_command, last_exit>>

\* everything of the device flow
flowVars == <<pc, now, device_info, grant_created, interval, expires_in, start_time,
              response, polls, last_poll_at, n_pending, n_slow, terminal_at,
              outcome, poll_result, poll_msg, sleep_for, auth_result,
              device_requests, displayed, browser,
              device_code, polled_codes, poll_loops>>

\* what only the first two steps of authenticate touch
sessionVars == <<device_requests, displayed, browser>>

\* what leaving the flow does not touch
keptOnExit == <<now, device_info, grant_created, interval, expires_in, start_time,
                polls, last_poll_at, n_pending, n_slow, sleep_for,
                device_code, polled_codes, poll_loops>>

\* authenticate step 1 with a 200 answer: the grant is created
RequestDeviceCode(info) ==
    /\ pc = "start"
    /\ device_info' = info
    /\ grant_created' = now
    /\ device_requests' = device_requests + 1
    /\ pc' = "display"
    /\ UNCHANGED <<now, outcome, auth_result, displayed, browser>>
    /\ UNCHANGED loopVars
    /\ UNCHANGED cliVars

\* _request_device_code answers with a non-200 status (returns None), the
\* 200 body is an empty dict (`not device_info`), or the request or
\* response.json() raises (caught at line 61): authenticate returns None
DeviceCodeFails(how) ==
    /\ pc = "start"
    /\ outcome' = how
    /\ auth_result' = None
    /\ device_requests' = device_requests + 1
    /\ pc' = "done"
    /\ UNCHANGED <<now, device_info, grant_created, displayed, browser>>
    /\ UNCHANGED loopVars
    /\ UNCHANGED cliVars

\* the exception of webbrowser.open not caught inside _display_user_code
DisplayUserCode_BrowserFatal(browser_ok) ==
    /\ pc = "display"
    /\ displayed' = TRUE
    /\ browser' = IF browser_ok THEN "opened" ELSE "failed"
    /\ pc' = IF browser_ok THEN "prompt" ELSE "done"
    /\ outcome' = IF browser_ok THEN outcome ELSE "exception"
    /\ UNCHANGED <<now, device_info, grant_created, auth_result, device_requests>>
    /\ UNCHANGED loopVars
    /\ UNCHANGED cliVars

\* _display_user_code up to input(): the code is shown, the browser opens
\* or fails to (the failure is swallowed)
DisplayUserCode(browser_ok) ==
    /\ pc = "display"
    /\ displayed' = TRUE
    /\ browser' = IF browser_ok THEN "opened" ELSE "failed"
    /\ pc' = "prompt"
    /\ UNCHANGED <<now, device_info, grant_created, outcome, auth_result,
                   device_requests>>
    /\ UNCHANGED loopVars
    /\ UNCHANGED cliVars

\* the user presses Enter after d seconds
PressEnter(d) ==
    /\ pc = "prompt"
    /\ now' = now + d
    /\ pc' = "poll_init"
    /\ UNCHANGED <<device_info, grant_created, outcome, auth_result>>
    /\ UNCHANGED loopVars
    /\ UNCHANGED sessionVars
    /\ UNCHANGED cliVars

\* input() raises EOFError (stdin closed): caught at line 61
PromptEOF ==
    /\ pc = "prompt"
    /\ outcome' = "exception"
    /\ auth_result' = None
    /\ pc' = "done"
    /\ UNCHANGED <<now, device_info, grant_created>>
    /\ UNCHANGED loopVars
    /\ UNCHANGED sessionVars
    /\ UNCHANGED cliVars

\* _poll_for_token, lines 133-148: device_code and the request data are
\* built once from device_info
PollInit ==
    /\ pc = "poll_init"
    /\ interval' = Get(device_info, "interval", DefaultInterval)
    /\ expires_in' = Get(device_info, "expires_in", DefaultExpiresIn)
    /\ start_time' = now
    /\ device_code' = Get(device_info, "device_code", None)
    /\ poll_loops' = poll_loops + 1
    /\ pc' = "loop"
    /\ UNCHANGED <<now, device_info, grant_created, response, polls, last_poll_at,
                   n_pending, n_slow, terminal_at, outcome, poll_result, poll_msg,
                   sleep_for, auth_result, polled_codes>>
    /\ UNCHANGED sessionVars
    /\ UNCHANGED cliVars

\* the while test holds and requests.post is sent
SendPoll ==
    /\ pc = "loop"
    /\ LoopCondition(now, start_time, expires_in)
    /\ polls' = polls + 1
    /\ last_poll_at' = now
    /\ polled_codes' = polled_codes \cup {device_code}
    /\ pc' = "wait"
    /\ UNCHANGED <<now, device_info, grant_created, interval, expires_in, start_time,
                   response, n_pending, n_slow, terminal_at, outcome, poll_result,
                   poll_msg, sleep_for, auth_result, device_code, poll_loops>>
    /\ UNCHANGED sessionVars
    /\ UNCHANGED cliVars

\* the timed-out grant polled again by a second loop
TimedOut_Restarts ==
    /\ pc = "loop"
    /\ ~LoopCondition(now, start_time, expires_in)
    /\ poll_msg' = [kind |-> "timeout", text |-> "Authentication timed out"]
    /\ poll_result' = None
    /\ auth_result' = AuthenticateResult(None)
    /\ outcome' = "timeout"
    /\ terminal_at' = polls
    /\ pc' = "poll_init"
    /\ UNCHANGED response
    /\ UNCHANGED keptOnExit
    /\ UNCHANGED sessionVars
    /\ UNCHANGED cliVars

\* the while test fails: lines 184-185, then authenticate lines 54-59
TimedOut ==
    /\ pc = "loop"
    /\ ~LoopCondition(now, start_time, expires_in)
    /\ poll_msg' = [kind |-> "timeout", text |-> "Authentication timed out"]
    /\ poll_result' = None
    /\ auth_result' = AuthenticateResult(None)
    /\ outcome' = "timeout"
    /\ terminal_at' = polls
    /\ pc' = "done"
    /\ UNCHANGED response
    /\ UNCHANGED keptOnExit
    /\ UNCHANGED sessionVars
    /\ UNCHANGED cliVars

\* the exception not caught at line 61: it leaves authenticate
PollRaises_Escapes(exc) ==
    /\ pc = "wait"
    /\ outcome' = "escaped"
    /\ terminal_at' = polls
    /\ pc' = "done"
    /\ UNCHANGED <<response, poll_result, poll_msg, auth_result>>
    /\ UNCHANGED keptOnExit
    /\ UNCHANGED sessionVars
    /\ UNCHANGED cliVars

\* requests.post or response.json() raises: the exception leaves
\* _poll_for_token and is caught by authenticate, lines 61-66
PollRaises(exc) ==
    /\ pc = "wait"
    /\ outcome' = "exception"
    /\ auth_result' = None
    /\ terminal_at' = polls
    /\ pc' = "done"
    /\ UNCHANGED <<response, poll_result, poll_msg>>
    /\ UNCHANGED keptOnExit
    /\ UNCHANGED sessionVars
    /\ UNCHANGED cliVars

\* requests.post returns r; lines 164-165, then authenticate lines 54-59
ReturnToken(r) ==
    /\ pc = "wait"
    /\ response' = r
    /\ Branch(r) = "token"
    /\ poll_result' = r.json.access_token
    /\ auth_result' = AuthenticateResult(r.json.access_token)
    /\ outcome' = "token"
    /\ terminal_at' = polls
    /\ pc' = "done"
    /\ UNCHANGED poll_msg
    /\ UNCHANGED keptOnExit
    /\ UNCHANGED sessionVars
    /\ UNCHANGED cliVars

\* lines 166-169: time.sleep(interval) is entered
PendingSleep(r) ==
    /\ pc = "wait"
    /\ response' = r
    /\ Branch(r) = "pending"
    /\ n_pending' = n_pending + 1
    /\ sleep_for' = interval
    /\ pc' = "sleep"
    /\ UNCHANGED <<now, device_info, grant_created, interval, expires_in, start_time,
                   polls, last_poll_at, n_slow, terminal_at, outcome,
                   poll_result, poll_msg, auth_result>>
    /\ UNCHANGED grantUse
    /\ UNCHANGED sessionVars
    /\ UNCHANGED cliVars

\* lines 170-174: interval += 5, then time.sleep(interval) is entered
SlowDownSleep(r) ==
    /\ pc = "wait"
    /\ response' = r
    /\ Branch(r) = "slow_down"
    /\ n_slow < MaxSlowDowns
    /\ n_slow' = n_slow + 1
    /\ interval' = SlowDownInterval(interval)
    /\ sleep_for' = SlowDownInterval(interval)
    /\ pc' = "sleep"
    /\ UNCHANGED <<now, device_info, grant_created, expires_in, start_time,
                   polls, last_poll_at, n_pending, terminal_at, outcome,
                   poll_result, poll_msg, auth_result>>
    /\ UNCHANGED grantUse
    /\ UNCHANGED sessionVars
    /\ UNCHANGED cliVars

\* time.sleep returns and `continue` goes back to the while test
WakeUp ==
    /\ pc = "sleep"
    /\ now' = SleepUntil(now, sleep_for)
    /\ sleep_for' = 0
    /\ pc' = "loop"
    /\ UNCHANGED <<device_info, grant_created, interval, expires_in, start_time,
                   response, polls, last_poll_at, n_pending, n_slow, terminal_at,
                   outcome, poll_result, poll_msg, auth_result>>
    /\ UNCHANGED grantUse
    /\ UNCHANGED sessionVars
    /\ UNCHANGED cliVars

\* lines 175-177: any other 200 body
ErrorReturn(r) ==
    /\ pc = "wait"
    /\ response' = r
    /\ Branch(r) = "error"
    /\ poll_msg' = [kind |-> "error",
                    text |-> Get(r.json, "error_description", "Unknown error")]
    /\ poll_result' = None
    /\ auth_result' = AuthenticateResult(None)
    /\ outcome' = "error"
    /\ terminal_at' = polls
    /\ pc' = "done"
    /\ UNCHANGED keptOnExit
    /\ UNCHANGED sessionVars
    /\ UNCHANGED cliVars

\* lines 178-182: a status other than 200
StatusReturn(r) ==
    /\ pc = "wait"
    /\ response' = r
    /\ Branch(r) = "status"
    /\ poll_msg' = [kind |-> "status", text |-> ToString(r.status_code)]
    /\ poll_result' = None
    /\ auth_result' = AuthenticateResult(None)
    /\ outcome' = "status"
    /\ terminal_at' = polls
    /\ pc' = "done"
    /\ UNCHANGED keptOnExit
    /\ UNCHANGED sessionVars
    /\ UNCHANGED cliVars

\* Ctrl-C while blocked in input(), requests.post or time.sleep:
\* KeyboardInterrupt is not an Exception, so it leaves authenticate
KeyboardInterrupt ==
    /\ pc \in {"prompt", "wait", "sleep"}
    /\ outcome' = "interrupt"
    /\ terminal_at' = IF pc = "prompt" THEN terminal_at ELSE polls
    /\ pc' = "done"
    /\ UNCHANGED <<response, poll_result, poll_msg, auth_result>>
    /\ UNCHANGED keptOnExit
    /\ UNCHANGED sessionVars
    /\ UNCHANGED cliVars

\* the device flow alone, over every grant of DeviceInfos, with a browser
\* that opens
Next ==
    \/ \E info \in DeviceInfos : RequestDeviceCode(info)
    \/ \E how \in DeviceCodeFailures : DeviceCodeFails(how)
    \/ DisplayUserCode(TRUE)
    \/ \E d \in PromptDelays : PressEnter(d)
    \/ PromptEOF
    \/ PollInit
    \/ SendPoll
    \/ TimedOut
    \/ \E exc \in PollExceptions : PollRaises(exc)
    \/ \E r \in PollResponses : ReturnToken(r)
    \/ \E r \in PollResponses : PendingSleep(r)
    \/ \E r \in PollResponses : SlowDownSleep(r)
    \/ WakeUp
    \/ \E r \in PollResponses : ErrorReturn(r)
    \/ \E r \in PollResponses : StatusReturn(r)
    \/ KeyboardInterrupt

Spec == Init /\ [][Next]_vars

\* the polling loop is guaranteed to move on: every request carries
\* timeout=30 and time.sleep returns
PollLoopNext ==
    \/ PollInit \/ SendPoll \/ TimedOut \/ WakeUp
    \/ \E exc \in PollExceptions : PollRaises(exc)
    \/ \E r \in PollResponses :
          ReturnToken(r) \/ PendingSleep(r) \/ SlowDownSleep(r)
          \/ ErrorReturn(r) \/ StatusReturn(r)

FairSpec == Spec /\ WF_vars(PollLoopNext)

\* ------------------------------------------------------------ CLI handlers
\* a failed login removes the stored token
HandleAuthLogin_ClearsOnFailure(token, info_r, cfg, t) ==
    IF Truthy(token)
    THEN [exit_code |-> 0,
          config |-> SetToken(cfg, token, t),
          info_calls |-> 1,
          user_info |-> GetUserInfo(info_r)]
    ELSE [exit_code |-> 1,
          config |-> SetToken(cfg, None, t),
          info_calls |-> 0,
          user_info |-> NullProfile]

\* a login without a profile counted as failed
HandleAuthLogin_NeedsProfile(token, info_r, cfg, t) ==
    IF Truthy(token)
    THEN [exit_code |-> IF GetUserInfo(info_r) # NullProfile THEN 0 ELSE 1,
          config |-> SetToken(cfg, token, t),
          info_calls |-> 1,
          user_info |-> GetUserInfo(info_r)]
    ELSE [exit_code |-> 1,
          config |-> cfg,
          info_calls |-> 0,
          user_info |-> NullProfile]

\* CLIPilot.handle_auth_login after authenticate returned, lines 63-79
HandleAuthLogin(token, info_r, cfg, t) ==
    IF Truthy(token)
    THEN [exit_code |-> 0,
          config |-> SetToken(cfg, token, t),
          info_calls |-> 1,
          user_info |-> GetUserInfo(info_r)]
    ELSE [exit_code |-> 1,
          config |-> cfg,
          info_calls |-> 0,
          user_info |-> NullProfile]

\* a token that fails verification is removed
HandleAuthStatus_RemovesInvalid(cfg, env, verify_r, info_r) ==
    IF ~Truthy(GetToken(cfg, env))
    THEN [exit_code |-> 1, config |-> cfg, verify_calls |-> 0, verified |-> FALSE,
          info_calls |-> 0, user_info |-> NullProfile]
    ELSE IF VerifyToken(verify_r)
    THEN [exit_code |-> 0, config |-> cfg, verify_calls |-> 1, verified |-> TRUE,
          info_calls |-> 1, user_info |-> GetUserInfo(info_r)]
    ELSE [exit_code |-> 1, config |-> [cfg EXCEPT !.token = None],
          verify_calls |-> 1, verified |-> FALSE,
          info_calls |-> 0, user_info |-> NullProfile]

\* CLIPilot.handle_auth_status, lines 95-128
HandleAuthStatus(cfg, env, verify_r, info_r) ==
    IF ~Truthy(GetToken(cfg, env))
    THEN [exit_code |-> 1, config |-> cfg, verify_calls |-> 0, verified |-> FALSE,
          info_calls |-> 0, user_info |-> NullProfile]
    ELSE IF VerifyToken(verify_r)
    THEN [exit_code |-> 0, config |-> cfg, verify_calls |-> 1, verified |-> TRUE,
          info_calls |-> 1, user_info |-> GetUserInfo(info_r)]
    ELSE [exit_code |-> 1, config |-> cfg, verify_calls |-> 1, verified |-> FALSE,
          info_calls |-> 0, user_info |-> NullProfile]

\* CLIPilot.handle_auth_logout, lines 144-155
HandleAuthLogout(cfg, env, t) ==
    IF ~Truthy(GetToken(cfg, env))
    THEN [exit_code |-> 0, config |-> cfg]
    ELSE [exit_code |-> 0, config |-> SetToken(cfg, None, t)]

\* the token setup works with, lines 263-264: the argument, else the
\* stripped input
SetupToken(arg, typed) == IF Truthy(arg) THEN arg ELSE typed

\* the token stored before it is verified
HandleSetup_StoresUnverified(arg, typed, verify_r, info_r, cfg, t) ==
    IF ~Truthy(SetupToken(arg, typed))
    THEN [exit_code |-> 1, config |-> cfg, verify_calls |-> 0, verified |-> FALSE,
          info_calls |-> 0, user_info |-> NullProfile]
    ELSE IF VerifyToken(verify_r)
    THEN [exit_code |-> 0, config |-> SetToken(cfg, SetupToken(arg, typed), t),
          verify_calls |-> 1, verified |-> TRUE,
          info_calls |-> 1, user_info |-> GetUserInfo(info_r)]
    ELSE [exit_code |-> 1, config |-> SetToken(cfg, SetupToken(arg, typed), t),
          verify_calls |-> 1, verified |-> FALSE,
          info_calls |-> 0, user_info |-> NullProfile]

\* CLIPilot.setup, lines 257-286
HandleSetup(arg, typed, verify_r, info_r, cfg, t) ==
    IF ~Truthy(SetupToken(arg, typed))
    THEN [exit_code |-> 1, config |-> cfg, verify_calls |-> 0, verified |-> FALSE,
          info_calls |-> 0, user_info |-> NullProfile]
    ELSE IF VerifyToken(verify_r)
    THEN [exit_code |-> 0, config |-> SetToken(cfg, SetupToken(arg, typed), t),
          verify_calls |-> 1, verified |-> TRUE,
          info_calls |-> 1, user_info |-> GetUserInfo(info_r)]
    ELSE [exit_code |-> 1, config |-> cfg, verify_calls |-> 1, verified |-> FALSE,
          info_calls |-> 0, user_info |-> NullProfile]

\* the verification of lines 551-557 reached
CheckAuthentication_Verifies(token, verify_r) ==
    IF ~Truthy(token)
    THEN [passed |-> FALSE, verify_calls |-> 0]
    ELSE [passed |-> VerifyToken(verify_r), verify_calls |-> 1]

\* CLIPilot._check_authentication, lines 538-549; verify_r is what the
\* identity endpoint would answer to the unreachable call of line 552
CheckAuthentication(token, verify_r) ==
    IF ~Truthy(token)
    THEN [passed |-> FALSE, verify_calls |-> 0]
    ELSE [passed |-> TRUE, verify_calls |-> 0]

\* ------------------------------------------------------------- CLI actions
\* main dispatches `auth login`: handle_auth_login calls authenticate
StartLogin ==
    /\ command = "none"
    /\ pc = "idle"
    /\ command' = "login"
    /\ pc' = "start"
    /\ UNCHANGED <<now, device_info, grant_created, outcome, auth_result>>
    /\ UNCHANGED <<loopVars, sessionVars>>
    /\ UNCHANGED <<config, config0, env_token, verify_calls, verify_response,
                   verify_result, info_calls, info_response, user_info,
                   check_result, exit_code>>
    /\ UNCHANGED historyVars
    /\ UNCHANGED replVars

\* authenticate returned: handle_auth_login lines 63-79, main returns its
\* exit code
LoginReturns(info_r) ==
    /\ command = "login"
    /\ pc = "done"
    /\ outcome # "interrupt"
    /\ exit_code = NoExit
    /\ LET h == HandleAuthLogin(auth_result, info_r, config, now) IN
         /\ exit_code' = h.exit_code
         /\ config' = h.config
         /\ info_calls' = info_calls + h.info_calls
         /\ info_response' = IF h.info_calls = 1 THEN info_r ELSE info_response
         /\ user_info' = h.user_info
    /\ UNCHANGED <<command, config0, env_token, verify_calls, verify_response,
                   verify_result, check_result>>
    /\ UNCHANGED flowVars
    /\ UNCHANGED historyVars
    /\ UNCHANGED replVars

\* the interrupt reported like any other error
LoginCancelled_AsError ==
    /\ command = "login"
    /\ pc = "done"
    /\ outcome = "interrupt"
    /\ exit_code = NoExit
    /\ exit_code' = 1
    /\ UNCHANGED <<command, config, config0, env_token, verify_calls,
                   verify_response, verify_result, info_calls, info_response,
                   user_info, check_result>>
    /\ UNCHANGED flowVars
    /\ UNCHANGED historyVars
    /\ UNCHANGED replVars

\* the KeyboardInterrupt raised inside authenticate passes the
\* `except Exception` of handle_auth_login and reaches main, lines 200-202
LoginCancelled ==
    /\ command = "login"
    /\ pc = "done"
    /\ outcome = "interrupt"
    /\ exit_code = NoExit
    /\ exit_code' = 130
    /\ UNCHANGED <<command, config, config0, env_token, verify_calls,
                   verify_response, verify_result, info_calls, info_response,
                   user_info, check_result>>
    /\ UNCHANGED flowVars
    /\ UNCHANGED historyVars
    /\ UNCHANGED replVars

\* main dispatches `auth status`
AuthStatus(verify_r, info_r) ==
    /\ command = "none"
    /\ pc = "idle"
    /\ command' = "status"
    /\ LET h == HandleAuthStatus(config, env_token, verify_r, info_r) IN
         /\ exit_code' = h.exit_code
         /\ config' = h.config
         /\ verify_calls' = verify_calls + h.verify_calls
         /\ verify_response' = IF h.verify_calls = 1 THEN verify_r ELSE verify_response
         /\ verify_result' = h.verified
         /\ info_calls' = info_calls + h.info_calls
         /\ info_response' = IF h.info_calls = 1 THEN info_r ELSE info_response
         /\ user_info' = h.user_info
    /\ UNCHANGED <<config0, env_token, check_result>>
    /\ UNCHANGED flowVars
    /\ UNCHANGED historyVars
    /\ UNCHANGED replVars

\* main dispatches `setup [--token arg]`
Setup(arg, typed, verify_r, info_r) ==
    /\ command = "none"
    /\ pc = "idle"
    /\ command' = "setup"
    /\ LET h == HandleSetup(arg, typed, verify_r, info_r, config, now) IN
         /\ exit_code' = h.exit_code
         /\ config' = h.config
         /\ verify_calls' = verify_calls + h.verify_calls
         /\ verify_response' = IF h.verify_calls = 1 THEN verify_r ELSE verify_response
         /\ verify_result' = h.verified
         /\ info_calls' = info_calls + h.info_calls
         /\ info_response' = IF h.info_calls = 1 THEN info_r ELSE info_response
         /\ user_info' = h.user_info
    /\ UNCHANGED <<config0, env_token, check_result>>
    /\ UNCHANGED flowVars
    /\ UNCHANGED historyVars
    /\ UNCHANGED replVars

\* main dispatches `chat` or `interactive`: handle_chat lines 185-212 and
\* start_interactive lines 226-246 check authentication first; sent_ok
\* tells whether the chat itself then ends without an exception
Chat(kind, verify_r, sent_ok) ==
    /\ command = "none"
    /\ pc = "idle"
    /\ command' = kind
    /\ LET c == CheckAuthentication(GetToken(config, env_token), verify_r) IN
         /\ check_result' = IF c.passed THEN "passed" ELSE "rejected"
         /\ verify_calls' = verify_calls + c.verify_calls
         /\ verify_response' = IF c.verify_calls = 1 THEN verify_r ELSE verify_response
         /\ exit_code' = IF c.passed /\ sent_ok THEN 0 ELSE 1
    /\ UNCHANGED <<config, config0, env_token, verify_result, info_calls,
                   info_response, user_info>>
    /\ UNCHANGED flowVars
    /\ UNCHANGED historyVars
    /\ UNCHANGED replVars

\* main dispatches `auth logout`
Logout ==
    /\ command = "none"
    /\ pc = "idle"
    /\ command' = "logout"
    /\ LET h == HandleAuthLogout(config, env_token, now) IN
         /\ exit_code' = h.exit_code
         /\ config' = h.config
    /\ UNCHANGED <<config0, env_token, verify_calls, verify_response, verify_result,
                   info_calls, info_response, user_info, check_result>>
    /\ UNCHANGED flowVars
    /\ UNCHANGED historyVars
    /\ UNCHANGED replVars

\* the process has ended and the user starts the next one, a second
\* later, in the same environment and against the same config file
NextCommand ==
    /\ exit_code # NoExit
    /\ pc = "idle"
    /\ runs < MaxCommands
    /\ runs' = runs + 1
    /\ last_command' = command
    /\ last_exit' = exit_code
    /\ now' = now + 1
    /\ config0' = config
    /\ command' = "none"
    /\ verify_calls' = 0
    /\ verify_response' = NoIdResponse
    /\ verify_result' = FALSE
    /\ info_calls' = 0
    /\ info_response' = NoIdResponse
    /\ user_info' = NullProfile
    /\ check_result' = "none"
    /\ exit_code' = NoExit
    /\ UNCHANGED <<config, env_token>>
    /\ UNCHANGED <<pc, device_info, grant_created, outcome, auth_result>>
    /\ UNCHANGED <<loopVars, sessionVars>>
    /\ UNCHANGED replVars

\* grants the CLI specification logs in with: all but the 900 s default
LoginDeviceInfos ==
    {info \in DeviceInfos : "expires_in" \in DOMAIN info}

\* a CLI process: one command run against a stored configuration
CliInit ==
    /\ pc = "idle"
    /\ now = 1
    /\ device_info = [none |-> TRUE]
    /\ grant_created = NoTime
    /\ interval = 0
    /\ expires_in = 0
    /\ start_time = 0
    /\ response = NoResponse
    /\ polls = 0
    /\ last_poll_at = NoTime
    /\ n_pending = 0
    /\ n_slow = 0
    /\ terminal_at = NoTime
    /\ outcome = "none"
    /\ poll_result = None
    /\ poll_msg = NoMsg
    /\ sleep_for = 0
    /\ auth_result = None
    /\ device_requests = 0
    /\ displayed = FALSE
    /\ browser = "none"
    /\ device_code = None
    /\ polled_codes = {}
    /\ poll_loops = 0
    /\ CliIdle
    /\ config \in InitialConfigs
    /\ config0 = config
    /\ env_token \in EnvTokens
    /\ runs = 0
    /\ last_command = "none"
    /\ last_exit = NoExit
    /\ ReplIdle

CliNext ==
    \/ StartLogin
    \/ \E info \in LoginDeviceInfos : RequestDeviceCode(info)
    \/ \E how \in DeviceCodeFailures : DeviceCodeFails(how)
    \/ \E b \in BOOLEAN : DisplayUserCode(b)
    \/ \E d \in PromptDelays : PressEnter(d)
    \/ PromptEOF
    \/ PollInit
    \/ SendPoll
    \/ TimedOut
    \/ \E exc \in PollExceptions : PollRaises(exc)
    \/ \E r \in PollResponses : ReturnToken(r)
    \/ \E r \in PollResponses : PendingSleep(r)
    \/ \E r \in PollResponses : SlowDownSleep(r)
    \/ WakeUp
    \/ \E r \in PollResponses : ErrorReturn(r)
    \/ \E r \in PollResponses : StatusReturn(r)
    \/ KeyboardInterrupt
    \/ \E r \in IdentityResponses : LoginReturns(r)
    \/ LoginCancelled
    \/ \E vr, ir \in IdentityResponses : AuthStatus(vr, ir)
    \/ \E a \in SetupArgs, ty \in SetupTyped, vr, ir \in IdentityResponses :
          Setup(a, ty, vr, ir)
    \/ \E k \in {"chat", "interactive"}, vr \in IdentityResponses, ok \in BOOLEAN :
          Chat(k, vr, ok)
    \/ Logout

CliSpec == CliInit /\ [][CliNext]_vars

\* commands run one after the other against one config file; the logins
\* that came before are those InitialConfigs records
SessionNext ==
    \/ \E vr, ir \in IdentityResponses : AuthStatus(vr, ir)
    \/ \E a \in SetupArgs, ty \in SetupTyped, vr, ir \in IdentityResponses :
          Setup(a, ty, vr, ir)
    \/ \E k \in {"chat", "interactive"}, vr \in IdentityResponses, ok \in BOOLEAN :
          Chat(k, vr, ok)
    \/ Logout
    \/ NextCommand

SessionSpec == CliInit /\ [][SessionNext]_vars

\* ---------------------------------------------------- interactive session
\* str.strip() removes leading and trailing whitespace
IsSpace(c) == c = " "

RECURSIVE LStrip(_)
LStrip(str) ==
    IF str # <<>> /\ IsSpace(Head(str)) THEN LStrip(Tail(str)) ELSE str

RECURSIVE RStrip(_)
RStrip(str) ==
    IF str # <<>> /\ IsSpace(str[Len(str)])
    THEN RStrip(SubSeq(str, 1, Len(str) - 1)) ELSE str

Strip(str) == RStrip(LStrip(str))

\* str.lower(), on the upper-case letters the input lines use
LowerChar(c) == IF c = "Q" THEN "q" ELSE IF c = "X" THEN "x" ELSE c

Lower(str) == [i \in 1..Len(str) |-> LowerChar(str[i])]

\* run, line 53: `if not user_input.strip(): continue`
IsBlank(user_input) == Strip(user_input) = <<>>

\* the command names compared in _handle_special_commands
HelpCommand == <<"/", "h", "e", "l", "p">>
ContextCommand == <<"/", "c", "o", "n", "t", "e", "x", "t">>
FilesCommand == <<"/", "f", "i", "l", "e", "s">>
HistoryCommand == <<"/", "h", "i", "s", "t", "o", "r", "y">>
ClearCommand == <<"/", "c", "l", "e", "a", "r">>
ExitCommands == { <<"/", "e", "x", "i", "t">>, <<"/", "q", "u", "i", "t">>, <<"/", "q">> }

\* the command compared without lower()
HandleSpecialCommands_CaseSensitive(user_input) ==
    LET cmd == Strip(user_input) IN
    IF cmd = HelpCommand THEN "help"
    ELSE IF cmd = ContextCommand THEN "context"
    ELSE IF cmd = FilesCommand THEN "files"
    ELSE IF cmd = HistoryCommand THEN "history"
    ELSE IF cmd = ClearCommand THEN "clear"
    ELSE IF cmd \in ExitCommands THEN "exit"
    ELSE "none"

\* InteractiveSession._handle_special_commands, lines 125-152: the arm
\* taken, "none" when it returns False
HandleSpecialCommands(user_input) ==
    LET cmd == Lower(Strip(user_input)) IN
    IF cmd = HelpCommand THEN "help"
    ELSE IF cmd = ContextCommand THEN "context"
    ELSE IF cmd = FilesCommand THEN "files"
    ELSE IF cmd = HistoryCommand THEN "history"
    ELSE IF cmd = ClearCommand THEN "clear"
    ELSE IF cmd \in ExitCommands THEN "exit"
    ELSE "none"

\* entries appended by send_message, lines 69-85 (context, model and
\* timestamp left out)
RequestEntry(message) == [type |-> "request", text |-> message]
ResponseEntry == [type |-> "response", text |-> <<"o", "k">>]

\* the request entry appended before the response is computed
SendMessage_AppendsEarly(history, message, ok) ==
    IF ok
    THEN [history |-> history \o <<RequestEntry(message), ResponseEntry>>,
          result |-> "response"]
    ELSE [history |-> Append(history, RequestEntry(message)), result |-> "error"]

\* ChatInterface.send_message, lines 53-90: ok tells whether
\* _prepare_request and _simulate_copilot_response end without an
\* exception
SendMessage(history, message, ok) ==
    IF ok
    THEN [history |-> history \o <<RequestEntry(message), ResponseEntry>>,
          result |-> "response"]
    ELSE [history |-> history, result |-> "error"]

\* the stored list itself handed out
GetSessionHistory_NoCopy(history) ==
    [given |-> TRUE, alias |-> TRUE, items |-> history, mutated |-> FALSE]

\* ChatInterface.get_session_history, line 1154: a new list with the same
\* items
GetSessionHistory(history) ==
    [given |-> TRUE, alias |-> FALSE, items |-> history, mutated |-> FALSE]

\* ChatInterface.clear_session_history, line 1158
ClearSessionHistory(history) == <<>>

\* list.append / list.clear by the holder of a returned list
Mutate(items, op) ==
    IF op = "append"
    THEN Append(items, [type |-> "injected", text |-> <<>>])
    ELSE <<>>

\* the items of the returned list, which is the stored list when aliased
ReturnedItems == IF returned.alias THEN session_history ELSE returned.items

\* start_interactive passed the authentication check and calls
\* session.run(): the welcome text is printed, lines 46-48
StartSession ==
    /\ command = "interactive"
    /\ check_result = "passed"
    /\ exit_code = NoExit
    /\ session_pc = "none"
    /\ session_pc' = "input"
    /\ UNCHANGED <<session_active, lines, sent, send_result, session_history,
                   returned, ended_by>>
    /\ UNCHANGED <<command, config, config0, env_token, verify_calls, verify_response,
                   verify_result, info_calls, info_response, user_info, check_result,
                   exit_code>>
    /\ UNCHANGED historyVars
    /\ UNCHANGED flowVars

\* what no step of the session touches
sessionFrame == <<command, config, config0, env_token, verify_calls, verify_response,
                  verify_result, info_calls, info_response, user_info, check_result,
                  runs, last_command, last_exit>>

\* an empty or blank line: `continue`, line 54
BlankInput(user_input) ==
    /\ session_pc = "input"
    /\ session_active
    /\ Len(lines) < MaxInputs
    /\ IsBlank(user_input)
    /\ lines' = Append(lines, user_input)
    /\ UNCHANGED <<session_pc, session_active, sent, send_result, session_history,
                   returned, ended_by, exit_code>>
    /\ UNCHANGED sessionFrame
    /\ UNCHANGED flowVars

\* a special command, lines 57-58 and 125-150; after an exit command the
\* while test fails and run returns 0, line 69
SpecialCommand(user_input) ==
    /\ session_pc = "input"
    /\ session_active
    /\ Len(lines) < MaxInputs
    /\ ~IsBlank(user_input)
    /\ HandleSpecialCommands(user_input) # "none"
    /\ lines' = Append(lines, user_input)
    /\ LET arm == HandleSpecialCommands(user_input) IN
         /\ returned' = IF arm = "history"
                        THEN GetSessionHistory(session_history) ELSE returned
         /\ session_history' = IF arm = "clear"
                               THEN ClearSessionHistory(session_history)
                               ELSE session_history
         /\ session_active' = IF arm = "exit" THEN FALSE ELSE session_active
         /\ session_pc' = IF arm = "exit" THEN "ended" ELSE session_pc
         /\ ended_by' = IF arm = "exit" THEN "command" ELSE ended_by
         /\ exit_code' = IF arm = "exit" THEN 0 ELSE exit_code
    /\ UNCHANGED <<sent, send_result>>
    /\ UNCHANGED sessionFrame
    /\ UNCHANGED flowVars

\* any other line: _process_message passes it to send_message, lines 61
\* and 174-176
ChatMessage(user_input, ok) ==
    /\ session_pc = "input"
    /\ session_active
    /\ Len(lines) < MaxInputs
    /\ ~IsBlank(user_input)
    /\ HandleSpecialCommands(user_input) = "none"
    /\ lines' = Append(lines, user_input)
    /\ sent' = Append(sent, user_input)
    /\ LET r == SendMessage(session_history, user_input, ok) IN
         /\ session_history' = r.history
         /\ send_result' = r.result
    /\ UNCHANGED <<session_pc, session_active, returned, ended_by, exit_code>>
    /\ UNCHANGED sessionFrame
    /\ UNCHANGED flowVars

\* input() raises EOFError or KeyboardInterrupt: break, lines 63-68, and
\* run returns 0
SessionBreak(how) ==
    /\ session_pc = "input"
    /\ session_active
    /\ session_pc' = "ended"
    /\ ended_by' = how
    /\ exit_code' = 0
    /\ UNCHANGED <<session_active, lines, sent, send_result, session_history,
                   returned>>
    /\ UNCHANGED sessionFrame
    /\ UNCHANGED flowVars

\* input() raises another exception (undecodable bytes on stdin): the
\* outer handler of run returns 1, lines 71-77
InputFails ==
    /\ session_pc = "input"
    /\ session_active
    /\ session_pc' = "ended"
    /\ ended_by' = "error"
    /\ exit_code' = 1
    /\ UNCHANGED <<session_active, lines, sent, send_result, session_history,
                   returned>>
    /\ UNCHANGED sessionFrame
    /\ UNCHANGED flowVars

\* the holder of a list returned by get_session_history changes that list
CallerMutatesCopy(op) ==
    /\ returned.given
    /\ ~returned.mutated
    /\ session_pc = "input"
    /\ returned' = [returned EXCEPT !.items = Mutate(ReturnedItems, op),
                                    !.mutated = TRUE]
    /\ session_history' = IF returned.alias
                          THEN Mutate(session_history, op) ELSE session_history
    /\ UNCHANGED <<session_pc, session_active, lines, sent, send_result, ended_by,
                   exit_code>>
    /\ UNCHANGED sessionFrame
    /\ UNCHANGED flowVars

\* the `interactive` command of a logged-in user, after
\* _check_authentication passed
ReplInit ==
    /\ pc = "idle"
    /\ now = 1
    /\ device_info = [none |-> TRUE]
    /\ grant_created = NoTime
    /\ interval = 0
    /\ expires_in = 0
    /\ start_time = 0
    /\ response = NoResponse
    /\ polls = 0
    /\ last_poll_at = NoTime
    /\ n_pending = 0
    /\ n_slow = 0
    /\ terminal_at = NoTime
    /\ outcome = "none"
    /\ poll_result = None
    /\ poll_msg = NoMsg
    /\ sleep_for = 0
    /\ auth_result = None
    /\ device_requests = 0
    /\ displayed = FALSE
    /\ browser = "none"
    /\ device_code = None
    /\ polled_codes = {}
    /\ poll_loops = 0
    /\ command = "interactive"
    /\ check_result = "passed"
    /\ verify_calls = 0
    /\ verify_response = NoIdResponse
    /\ verify_result = FALSE
    /\ info_calls = 0
    /\ info_response = NoIdResponse
    /\ user_info = NullProfile
    /\ exit_code = NoExit
    /\ config = LoggedInConfig
    /\ config0 = LoggedInConfig
    /\ env_token = None
    /\ runs = 0
    /\ last_command = "none"
    /\ last_exit = NoExit
    /\ ReplIdle

ReplNext ==
    \/ StartSession
    \/ \E l \in InputLines : BlankInput(l)
    \/ \E l \in InputLines : SpecialCommand(l)
    \/ \E l \in InputLines, ok \in BOOLEAN : ChatMessage(l, ok)
    \/ \E how \in {"eof", "interrupt"} : SessionBreak(how)
    \/ InputFails
    \/ \E op \in ListMutations : CallerMutatesCopy(op)

ReplSpec == ReplInit /\ [][ReplNext]_vars

\* ------------------------------------------------------------- vocabulary
\* interval of the grant, as _poll_for_token reads it
GrantInterval == Get(device_info, "interval", DefaultInterval)
\* lifetime of the grant, as _poll_for_token reads it
GrantExpiresIn == Get(device_info, "expires_in", DefaultExpiresIn)
\* _poll_for_token has returned a value
PollReturned == pc = "done" /\ outcome \in {"token", "error", "status", "timeout"}
\* seconds slept by the loop so far
Slept == now - start_time
\* error code of a response body
ErrorOf(r) == Get(r.json, "error", None)
\* exits of authenticate through a return statement (lines 44, 56, 59, 66)
ReturnOutcomes == {"token", "error", "status", "timeout", "exception"}
                      \cup DeviceCodeFailures
\* this step receives an answer of the access-token endpoint
Answered == pc = "wait" /\ pc' # "wait" /\ outcome' \notin {"interrupt", "exception"}

\* input lines run skips: nothing but whitespace
BlankLines == { <<>>, <<" ">> }
\* input lines that end the session: the exit commands in any letter case
\* and with surrounding blanks
ExitLines == { <<"/", "e", "x", "i", "t">>, <<"/", "q", "u", "i", "t">>,
               <<"/", "q">>, <<"/", "Q">>, <<" ", "/", "q", " ">> }
\* input lines handled as special commands
CommandLines ==
    ExitLines \cup { <<"/", "h", "e", "l", "p">>,
                     <<"/", "c", "o", "n", "t", "e", "x", "t">>,
                     <<"/", "f", "i", "l", "e", "s">>,
                     <<"/", "h", "i", "s", "t", "o", "r", "y">>,
                     <<"/", "c", "l", "e", "a", "r">> }
\* every other input line is a chat message
IsChatLine(l) == l \notin BlankLines \cup CommandLines
\* the line read by this step, <<"none">> when the step reads no line
LineRead == IF lines' # lines THEN lines'[Len(lines')] ELSE <<"none">>
\* request and response entries alternate, starting with a request
PairsInOrder(h) ==
    /\ Len(h) % 2 = 0
    /\ \A i \in 1..Len(h) : h[i].type = IF i % 2 = 1 THEN "request" ELSE "response"

\* ------------------------------------------------------------------ claims

\* C1: _poll_for_token returns no later than expires_in seconds after the
\* grant was created by the device-code request.
C1_ReturnsWithinExpiry ==
    PollReturned => now - grant_created <= GrantExpiresIn

\* C1 (termination part): once polling has started, the flow ends.
C1_PollTerminates == (pc = "loop") ~> (pc = "done")

\* C2: no poll request is sent once more than expires_in seconds have
\* elapsed since the grant was created.
C2_NoPollPastExpiry ==
    last_poll_at # NoTime => last_poll_at - grant_created <= GrantExpiresIn

\* C3: a poll response whose error is access_denied or expired_token ends
\* the loop at once with a failure result: no sleep, no further poll.
C3_DeniedEndsLoop ==
    [][(Answered /\ ErrorOf(response') \in {"access_denied", "expired_token"})
          => /\ pc' = "done"
             /\ poll_result' = None
             /\ auth_result' = None
             /\ terminal_at' = polls
             /\ polls' = polls
             /\ now' = now]_vars

C3_Witness ==
    /\ pc = "done"
    /\ ErrorOf(response) \in {"access_denied", "expired_token"}
    /\ poll_result = None
    /\ polls = 3

\* C4: an authorization_pending response never produces a return: the loop
\* sleeps the current interval, leaves the interval unchanged, and polls
\* again exactly when the expires_in budget is not exhausted.
C4_PendingKeepsPolling ==
    [][/\ (Answered /\ response'.status_code = 200
                    /\ ErrorOf(response') = "authorization_pending")
            => /\ pc' = "sleep"
               /\ outcome' = "none"
               /\ interval' = interval
               /\ sleep_for' = interval
       /\ (pc = "sleep" /\ pc' = "loop" /\ ErrorOf(response) = "authorization_pending")
            => /\ now' = now + interval
               /\ interval' = interval
       /\ (pc = "loop" /\ Slept < expires_in)
            => pc' = "wait" /\ polls' = polls + 1]_vars

C4_Witness ==
    /\ pc = "wait"
    /\ ErrorOf(response) = "authorization_pending"
    /\ n_pending = 2
    /\ polls = 3

\* C5: each slow_down response raises the interval by exactly 5, the raised
\* value is slept right after that response and in every later sleep, and
\* the interval never decreases: after k slow_down responses every sleep
\* lasts initial_interval + 5*k.
C5_SlowDownRaisesInterval ==
    [][/\ (Answered /\ response'.status_code = 200 /\ ErrorOf(response') = "slow_down")
            => /\ interval' = interval + 5
               /\ n_slow' = n_slow + 1
               /\ pc' = "sleep"
       /\ (pc = "sleep" /\ pc' = "loop")
            => now' - now = GrantInterval + 5 * n_slow
       /\ (pc \in {"loop", "wait", "sleep"})
            => interval' >= interval]_vars

C5_Witness ==
    /\ pc = "loop"
    /\ n_slow = 2
    /\ ErrorOf(response) = "authorization_pending"
    /\ interval = GrantInterval + 10
    /\ Slept >= 3 * GrantInterval + 15

\* C6: between two consecutive poll requests the loop sleeps at least the
\* grant's interval.
C6_SleepBetweenPolls ==
    [][(pc = "loop" /\ pc' = "wait" /\ last_poll_at # NoTime)
          => last_poll_at' - last_poll_at >= GrantInterval]_vars

C6_Witness ==
    /\ pc = "wait"
    /\ polls = 3
    /\ n_slow = 0
    /\ last_poll_at = start_time + 2 * GrantInterval

\* C7 as stated: a response with access_token makes _poll_for_token return
\* that value at once and authenticate return the same value.
C7_TokenReturnedAsIs ==
    (pc = "done" /\ "access_token" \in DOMAIN response.json)
        => /\ poll_result = response.json.access_token
           /\ auth_result = response.json.access_token

\* C7 amended: _poll_for_token returns the access_token value at once, with
\* no sleep and no further poll; authenticate returns the same value when
\* it is non-empty and None when it is empty.
C7_TokenReturned ==
    [][(Answered /\ "access_token" \in DOMAIN response'.json)
          => /\ pc' = "done"
             /\ poll_result' = response'.json.access_token
             /\ now' = now
             /\ polls' = polls
             /\ terminal_at' = polls
             /\ auth_result' = IF response'.json.access_token = ""
                               THEN None ELSE response'.json.access_token]_vars

C7_Witness ==
    /\ pc = "done"
    /\ "access_token" \in DOMAIN response.json
    /\ auth_result = "gho_xxx"
    /\ poll_result = "gho_xxx"
    /\ polls = 2

\* C8: a response that is neither access_token, authorization_pending nor
\* slow_down (unknown error code, non-200 status), a transport failure or a
\* request timeout ends polling at once with a failure: no sleep, no
\* further poll.
C8_OtherResponseFails ==
    [][(\/ /\ Answered
           /\ \/ response'.status_code # 200
              \/ /\ "access_token" \notin DOMAIN response'.json
                 /\ ErrorOf(response') \notin {"authorization_pending", "slow_down"}
        \/ pc = "wait" /\ outcome' = "exception")
          => /\ pc' = "done"
             /\ auth_result' = None
             /\ poll_result' = None
             /\ n_pending' = n_pending
             /\ polls' = polls
             /\ terminal_at' = polls
             /\ now' = now]_vars

C8_Witness ==
    /\ pc = "done"
    /\ polls = 2
    /\ \/ outcome = "exception"
       \/ outcome = "status" /\ response.status_code = 500
       \/ outcome = "error" /\ ErrorOf(response) = "unsupported_grant_type"

\* C9 as stated: on exhaustion of the budget _poll_for_token returns a
\* Timeout error, a value other than the one the Denied and PollFailed
\* exits return (None), and not a token.
C9_TimeoutIsDistinctResult ==
    (pc = "done" /\ outcome = "timeout")
        => poll_result # None /\ poll_result \notin Tokens

\* C9 amended: when the budget is exhausted while only
\* authorization_pending / slow_down answers were seen, _poll_for_token
\* returns None, never a token, and prints "Authentication timed out", a
\* message no other exit prints.
C9_TimeoutReturnsNone ==
    [][/\ (pc = "loop" /\ Slept >= expires_in)
            => /\ pc' = "done"
               /\ outcome' = "timeout"
               /\ poll_result' = None
               /\ auth_result' = None
               /\ polls' = n_pending + n_slow
       /\ (poll_msg'.kind = "timeout") <=> (outcome' = "timeout")
       /\ (outcome' = "timeout") => Slept' >= expires_in']_vars

C9_Witness ==
    /\ pc = "done"
    /\ outcome = "timeout"
    /\ poll_result = None
    /\ poll_msg.text = "Authentication timed out"
    /\ n_pending >= 1
    /\ n_slow >= 1

\* C10: n authorization_pending answers followed by a token give exactly
\* n+1 polls and at least n*interval seconds slept; with expires_in = 900,
\* interval = 5 and n = 3 the token comes back after 4 polls and 15 s.
C10_PendingThenToken ==
    (pc = "done" /\ outcome = "token" /\ n_slow = 0)
        => /\ polls = n_pending + 1
           /\ Slept >= n_pending * GrantInterval
           /\ poll_result = response.json.access_token

C10_Witness ==
    /\ pc = "done"
    /\ expires_in = 900
    /\ interval = 5
    /\ n_pending = 3
    /\ n_slow = 0
    /\ polls = 4
    /\ poll_result = "gho_xxx"
    /\ Slept = 15

\* C11: the device-code request is sent once; when it fails (non-2xx
\* status, network error, or a body lacking device_code) authenticate
\* returns a failure without displaying a user code and without polling.
C11_DeviceCodeFailureStops ==
    /\ device_requests <= 1
    /\ (device_requests = 1 /\ "device_code" \notin DOMAIN device_info)
          => /\ ~displayed
             /\ polls = 0
             /\ pc = "done" => auth_result = None

\* C15: verify_token returns true exactly when the identity endpoint
\* answers with status 200; every other status, network error or timeout
\* gives false, and the caller goes on normally (nothing is raised).
C15_VerifyTrueOnlyOn200 ==
    verify_calls > 0
        => /\ verify_result <=> (verify_response.kind = "http"
                                 /\ verify_response.status_code = 200)
           /\ exit_code = IF verify_result THEN 0 ELSE 1

C15_Witness ==
    /\ verify_calls = 1
    /\ verify_response.kind = "Timeout"
    /\ ~verify_result
    /\ command = "setup"
    /\ exit_code = 1

\* C16: get_user_info returns the profile only on status 200 and null on
\* every other status, network error or timeout; the caller goes on
\* normally (nothing is raised).
C16_ProfileOnlyOn200 ==
    info_calls > 0
        => /\ user_info # NullProfile
                => /\ info_response.kind = "http"
                   /\ info_response.status_code = 200
                   /\ user_info = info_response.json
           /\ (info_response.kind # "http" \/ info_response.status_code # 200)
                => user_info = NullProfile
           /\ (info_response.kind = "http" /\ info_response.status_code = 200
                 /\ info_response.decodable)
                => user_info = Profile
           /\ exit_code = 0

C16_Witness ==
    /\ info_calls = 1
    /\ info_response.kind = "http"
    /\ info_response.status_code = 401
    /\ user_info = NullProfile
    /\ command = "status"
    /\ exit_code = 0

\* C17: in handle_auth_login, handle_auth_status and setup the exit code
\* and the stored config are the same whatever the identity endpoint
\* answers to get_user_info (a profile or null).
C17_IdentityNotAuthorization ==
    /\ (command = "login" /\ pc = "done" /\ outcome # "interrupt")
          => \A r1, r2 \in IdentityResponses :
                LET a == HandleAuthLogin(auth_result, r1, config0, now)
                    b == HandleAuthLogin(auth_result, r2, config0, now)
                IN a.exit_code = b.exit_code /\ a.config = b.config
    /\ (command = "login" /\ exit_code \notin {NoExit, 130})
          => /\ exit_code = IF Truthy(auth_result) THEN 0 ELSE 1
             /\ config.token = IF Truthy(auth_result) THEN auth_result ELSE config0.token
    /\ \A vr, r1, r2 \in IdentityResponses :
          LET a == HandleAuthStatus(config0, env_token, vr, r1)
              b == HandleAuthStatus(config0, env_token, vr, r2)
          IN a.exit_code = b.exit_code /\ a.config = b.config
    /\ \A arg \in SetupArgs, typed \in SetupTyped, vr, r1, r2 \in IdentityResponses :
          LET a == HandleSetup(arg, typed, vr, r1, config0, now)
              b == HandleSetup(arg, typed, vr, r2, config0, now)
          IN a.exit_code = b.exit_code /\ a.config = b.config
    /\ (command \in {"status", "setup"})
          => exit_code = IF verify_result THEN 0 ELSE 1

C17_Witness ==
    /\ command = "login"
    /\ exit_code = 0
    /\ info_calls = 1
    /\ user_info = NullProfile
    /\ config.token = "gho_xxx"
    /\ config0.token = "gho_old"

\* C18: Ctrl-C while the device flow prompts, polls or sleeps aborts the
\* login: the stored config is unchanged, no further poll is sent and the
\* CLI ends with exit code 130.
C18_InterruptPersistsNothing ==
    [][(command = "login" /\ outcome' = "interrupt")
          => /\ config' = config0
             /\ polls' = polls
             /\ pc' = "done"
             /\ exit_code' \in {NoExit, 130}
             /\ (outcome = "interrupt") => exit_code' = 130]_vars

C18_Witness ==
    /\ command = "login"
    /\ outcome = "interrupt"
    /\ exit_code = 130
    /\ sleep_for > 0
    /\ polls = 2
    /\ config = LoggedInConfig

\* C19: a browser that fails to open is not fatal: the flow goes on to the
\* prompt and the poll loop with the same grant, and what authenticate
\* returns is decided by the poll responses alone.
C19_BrowserFailureNotFatal ==
    [][/\ (pc = "display")
            => /\ pc' = "prompt"
               /\ device_info' = device_info
               /\ outcome' = "none"
       /\ (browser' = "failed" /\ pc' = "done" /\ outcome' # "interrupt")
            => auth_result' =
                 IF outcome' = "token" /\ response'.json.access_token # ""
                 THEN response'.json.access_token ELSE None]_vars

C19_Witness ==
    /\ browser = "failed"
    /\ pc = "done"
    /\ outcome = "token"
    /\ auth_result = "gho_xxx"
    /\ polls = 2
    /\ "device_code" \in DOMAIN device_info

\* C20: _check_authentication passes exactly when get_token() is
\* non-empty, without calling the verifier, so a token the identity
\* endpoint would reject still passes.
C20_CheckSkipsVerifier ==
    [][(command = "none" /\ command' \in {"chat", "interactive"})
          => /\ (check_result' = "passed") <=> Truthy(GetToken(config, env_token))
             /\ (check_result' = "rejected") <=> ~Truthy(GetToken(config, env_token))
             /\ verify_calls' = verify_calls
             /\ (check_result' = "rejected") => exit_code' = 1]_vars

C20_Witness ==
    /\ command = "chat"
    /\ check_result = "passed"
    /\ verify_calls = 0
    /\ env_token = None
    /\ config.token = "gho_old"
    /\ exit_code = 0

\* C21: authenticate ends by returning a non-empty provider token or None:
\* a device-code failure, a denial, an expiry, a failed poll, a timeout and
\* every exception of a network call or of the prompt give None, and no
\* Exception leaves authenticate.
C21_TokenOrNull ==
    (pc = "done" /\ outcome # "interrupt")
        => /\ outcome \in ReturnOutcomes
           /\ auth_result = None \/ (auth_result \in Tokens /\ auth_result # "")
           /\ auth_result # None
                => outcome = "token" /\ auth_result = response.json.access_token
           /\ outcome # "token" => auth_result = None

C21_Witness ==
    /\ pc = "done"
    /\ outcome = "exception"
    /\ polls = 2
    /\ n_pending = 1
    /\ auth_result = None

\* C22: one authenticate call makes one device-code request and enters the
\* polling loop at most once; the grant is not changed after its creation,
\* every poll carries its device_code, and once the flow has ended no
\* further poll is sent.
C22_GrantConsumedOnce ==
    [][/\ device_requests' <= 1
       /\ poll_loops' <= 1
       /\ polled_codes' \subseteq {Get(device_info', "device_code", None)}
       /\ (grant_created # NoTime) => device_info' = device_info
       /\ (terminal_at # NoTime \/ pc = "done")
            => /\ polls' = polls
               /\ polled_codes' = polled_codes
               /\ pc' = "done"]_vars

C22_Witness ==
    /\ pc = "done"
    /\ outcome = "error"
    /\ device_requests = 1
    /\ poll_loops = 1
    /\ polls = 3
    /\ polled_codes = {"D1"}

C24_SetupStoresOnlyVerified ==
    command = "setup"
        => /\ config # config0
                => /\ verify_calls = 1
                   /\ verify_result
                   /\ verify_response.kind = "http"
                   /\ verify_response.status_code = 200
                   /\ config.token \in (SetupArgs \cup SetupTyped) \ {None, ""}
                   /\ exit_code = 0
           /\ ~verify_result
                => /\ config = config0
                   /\ exit_code = 1
           /\ verify_calls = 0 => ~verify_result

C24_Witness ==
    /\ command = "setup"
    /\ verify_calls = 1
    /\ verify_response.status_code = 401
    /\ config = LoggedInConfig
    /\ exit_code = 1

\* C25: handle_auth_status returns 0 exactly when a token is available and
\* the verifier accepts it at call time, returns 1 otherwise, and never
\* changes the stored auth section: a token that fails verification stays.
C25_StatusReadOnly ==
    command = "status"
        => /\ config = config0
           /\ exit_code \in {0, 1}
           /\ exit_code = 0
                <=> /\ Truthy(GetToken(config0, env_token))
                    /\ verify_calls = 1
                    /\ verify_response.kind = "http"
                    /\ verify_response.status_code = 200
           /\ ~Truthy(GetToken(config0, env_token)) => verify_calls = 0

C25_Witness ==
    /\ command = "status"
    /\ env_token = None
    /\ verify_calls = 1
    /\ verify_response.status_code = 401
    /\ exit_code = 1
    /\ config.token = "gho_old"

\* C26: after handle_auth_logout returned 0 the user is not authenticated:
\* get_token() gives no token and the next chat or interactive command is
\* rejected by _check_authentication, also when GITHUB_COPILOT_TOKEN is
\* set.
C26_LogoutEndsAuthentication ==
    /\ (command = "logout" /\ exit_code = 0)
          => ~Truthy(GetToken(config, env_token))
    /\ (command \in {"chat", "interactive"} /\ last_command = "logout"
          /\ last_exit = 0)
          => check_result = "rejected" /\ exit_code = 1

\* C28: set_token(None) changes only auth.token, token_type and
\* authenticated_at keep what the last login wrote and get_auth_info still
\* reports them; set_token with a real token writes all three fields.
C28_RemovalKeepsMetadata ==
    /\ command = "logout"
          => /\ config.token_type = config0.token_type
             /\ config.authenticated_at = config0.authenticated_at
             /\ config.token = IF Truthy(GetToken(config0, env_token))
                               THEN None ELSE config0.token
             /\ GetAuthInfo(config, None).token_type = config0.token_type
             /\ GetAuthInfo(config, None).authenticated_at = config0.authenticated_at
    /\ (command = "setup" /\ exit_code = 0)
          => /\ Truthy(config.token)
             /\ config.token_type = "github"
             /\ config.authenticated_at = now

C28_Witness ==
    /\ command = "logout"
    /\ env_token = None
    /\ config0.token = "gho_typed"
    /\ config = [token |-> None, token_type |-> "github", authenticated_at |-> 2]
    /\ ~GetAuthInfo(config, env_token).is_authenticated

C27_PollCountBounded ==
    [][/\ (pc = "loop" /\ pc' = "wait" /\ polls = 0)
            => /\ now = start_time
               /\ last_poll_at' = start_time
               /\ n_pending = 0 /\ n_slow = 0
       /\ (polls' - 1) * GrantInterval' < GrantExpiresIn' \/ polls' = 0
       /\ (pc = "loop" /\ expires_in = 0)
            => /\ pc' = "done"
               /\ outcome' = "timeout"
               /\ polls' = 0]_vars

C27_Witness ==
    /\ pc = "done"
    /\ outcome = "timeout"
    /\ GrantExpiresIn = 3
    /\ GrantInterval = 2
    /\ polls = 2
    /\ n_slow = 0

====
